---- MODULE Spec2Model ----
(***************************************************************************)
(* A model of bot.py: the same-host breadth-first crawler (crawl_site),    *)
(* the ledger of delivered fingerprints (load_sent / save_sent), the       *)
(* fetcher (download_file), the delivery client (send_to_telegram) and the *)
(* cycle orchestrator (process_all / main).                                *)
(*                                                                         *)
(* A URL is a sequence of tokens, e.g.                                     *)
(*   "http://h/docs/x.pdf?v=1" = <<"http://","h","/","docs","/","x",       *)
(*                                 ".pdf","?","v=1">>                      *)
(* so that urlparse, urljoin, str.lower and str.endswith are computed on   *)
(* the text of the URL and not assumed.                                    *)
(***************************************************************************)
EXTENDS Integers, Sequences, FiniteSets, TLC

VARIABLES
    world,         \* the remote content this behaviour runs against
    run_once,      \* RUN_ONCE
    pc,            \* position of the process in main / process_all
    sentFile,      \* the file at SENT_DB_PATH
    disk,          \* DOWNLOAD_DIR: name of each complete artifact |-> URL it holds
    parts,         \* DOWNLOAD_DIR: names that have a ".part" file
    sent,          \* process_all: the in-memory ledger
    total_new,     \* process_all: uploads of this cycle
    sp,            \* process_all: index of the start URL in START_URLS
    files,         \* process_all: list returned by crawl_site
    idx,           \* process_all: index of file_url in files
    local,         \* process_all: the path download_file returned
    host,          \* crawl_site: host of the start URL
    to_visit,      \* crawl_site: FIFO queue of pending page URLs
    seen_pages,    \* crawl_site: set of URLs popped and marked seen
    found_files,   \* crawl_site: file links found, not yet deduplicated
    fetched,       \* observation: the URLs passed to fetch_html, in order
    got_html,      \* observation: the URLs whose fetch_html returned markup
    delivered,     \* observation: file URL |-> number of confirmed deliveries
    relayed,       \* observation: what the chat received
    cycle,         \* observation: number of the current process_all call
    crashes,       \* observation: number of crashes so far
    initLedger,    \* observation: the ledger the first cycle loaded from
    recorded,      \* observation: fingerprints of every completed ledger write
    lost,          \* observation: URL |-> crashes between its send and its save
    cur,           \* observation: what happened in this cycle
    prev           \* observation: what happened in the previous cycle

crawlVars == <<host, to_visit, seen_pages, found_files, fetched, got_html>>

procVars == <<sent, total_new, sp, idx, local>>

storeVars == <<sentFile, disk, parts>>

obsVars == <<delivered, relayed, cycle, crashes, initLedger, recorded, lost, cur, prev>>

vars == <<world, run_once, pc, files, crawlVars, procVars, storeVars, obsVars>>

----------------------------------------------------------------------------
(* Sequences *)

Range(s) == {s[i] : i \in 1..Len(s)}

Contains(s, x) == \E i \in 1..Len(s) : s[i] = x

Last(s) == s[Len(s)]

\* index of the first element of s that is in set S, or Len(s)+1
RECURSIVE FirstIn(_, _, _)
FirstIn(s, S, i) ==
    IF i > Len(s) THEN Len(s) + 1
    ELSE IF s[i] \in S THEN i ELSE FirstIn(s, S, i + 1)

\* index of the last occurrence of x in s, or 0
RECURSIVE LastIndexOf(_, _, _)
LastIndexOf(s, x, i) ==
    IF i = 0 THEN 0
    ELSE IF s[i] = x THEN i ELSE LastIndexOf(s, x, i - 1)

----------------------------------------------------------------------------
(* URLs: urlparse, urljoin, str.lower, str.endswith on token sequences *)

Scheme == "http://"

WANTED_EXTS == <<".mp4", ".pdf">>

\* str.lower() of one token
LowerTok(t) ==
    CASE t = ".PDF" -> ".pdf"
      [] t = ".MP4" -> ".mp4"
      [] t = ".Pdf" -> ".pdf"
      [] t = "H"    -> "h"
      [] OTHER      -> t

Lower(url) == [i \in 1..Len(url) |-> LowerTok(url[i])]

\* s.endswith(ext), ext one token
EndsWith(s, ext) == Len(s) > 0 /\ Last(s) = ext

\* urlparse(url).netloc
netloc(url) ==
    IF Len(url) >= 2 /\ url[1] = Scheme THEN url[2] ELSE ""

\* urlparse(url).path: what follows the netloc, up to the query or fragment
urlpath(url) ==
    IF Len(url) >= 2 /\ url[1] = Scheme
    THEN SubSeq(url, 3, FirstIn(url, {"?", "#"}, 3) - 1)
    ELSE SubSeq(url, 1, FirstIn(url, {"?", "#"}, 1) - 1)

\* Path(p).name: the final path segment
PathName(p) == SubSeq(p, LastIndexOf(p, "/", Len(p)) + 1, Len(p))

\* the directory of a path, with its trailing "/"
PathDir(p) ==
    IF LastIndexOf(p, "/", Len(p)) = 0 THEN <<"/">>
    ELSE SubSeq(p, 1, LastIndexOf(p, "/", Len(p)))

\* an href urljoin raises ValueError on
Malformed(href) == Len(href) >= 2 /\ href[1] = Scheme /\ href[2] = "["

\* urljoin(base, href) for absolute, root-relative and relative hrefs
urljoin(base, href) ==
    IF href = <<>> THEN base
    ELSE IF href[1] = Scheme THEN href
    ELSE IF href[1] = "/" THEN SubSeq(base, 1, 2) \o href
    ELSE SubSeq(base, 1, 2) \o PathDir(urlpath(base)) \o href

\* a crawler that follows links to any host
same_host_any(url, h) == TRUE

same_host(url, h) == netloc(url) = h

normalize_link(base, href) ==
    IF Malformed(href) THEN <<>> ELSE urljoin(base, href)

is_wanted_file(url) ==
    \E i \in 1..Len(WANTED_EXTS) : EndsWith(Lower(url), WANTED_EXTS[i])

----------------------------------------------------------------------------
(* Remote content.  A world fixes START_URLS and what every URL serves; a  *)
(* page is the sequence of its tags, in document order.                    *)

Tag(kind, attr, val) == [kind |-> kind, attr |-> attr, val |-> val]

A(href) == Tag("a", "href", href)

\* scenario: the two-page site of the end-to-end scenario
IndexHtml == <<Scheme, "h", "/", "index", ".html">>
Page2Html == <<Scheme, "h", "/", "page2", ".html">>
APdf      == <<Scheme, "h", "/", "a", ".pdf">>
BMp4      == <<Scheme, "h", "/", "b", ".mp4">>

\* multi: two start points on two hosts that both lead to one file, and two
\* files with the same final path segment
RootH     == <<Scheme, "h">>
RootG     == <<Scheme, "g">>
ListHtml  == <<Scheme, "h", "/", "list", ".html">>
HXPdf     == <<Scheme, "h", "/", "x", ".pdf">>
HYMp4     == <<Scheme, "h", "/", "y", ".mp4">>
GXPdf     == <<Scheme, "g", "/", "docs", "/", "x", ".pdf">>
GIndex    == <<Scheme, "g", "/", "index", ".html">>

\* mixed: tag kinds, letter case, query strings, malformed and foreign links
RootM     == <<Scheme, "m", "/">>
MSub      == <<Scheme, "m", "/", "sub", "/", "p", ".html">>
MUpper    == <<Scheme, "m", "/", "V", ".MP4">>
MQuery    == <<Scheme, "m", "/", "r", ".pdf", "?", "dl=1">>
MClip     == <<Scheme, "m", "/", "sub", "/", "clip", ".mp4">>
MDoc      == <<Scheme, "m", "/", "sub", "/", "d", ".pdf">>

\* unbounded: page n of host "inf" links to the fresh pages 2n+1 and 2n+2
\* (and the first three pages to one file on another host)
Digits == <<"0", "1", "2", "3", "4", "5", "6", "7", "8", "9">>
DigitTok(d) == Digits[d + 1]
DigitVal(t) == (CHOOSE i \in 1..10 : Digits[i] = t) - 1
\* the decimal text of n, one token per digit
RECURSIVE Decimal(_)
Decimal(n) == IF n < 10 THEN <<DigitTok(n)>>
              ELSE Append(Decimal(n \div 10), DigitTok(n % 10))
RECURSIVE DecimalVal(_)
DecimalVal(s) == IF s = <<>> THEN 0
                 ELSE 10 * DecimalVal(SubSeq(s, 1, Len(s) - 1)) + DigitVal(Last(s))
InfPage(n) == <<Scheme, "inf", "/", "p">> \o Decimal(n)
IsInfPage(url) ==
    Len(url) > 4 /\ SubSeq(url, 1, 4) = <<Scheme, "inf", "/", "p">>
PageNo(url) == DecimalVal(SubSeq(url, 5, Len(url)))
CdnPdf == <<Scheme, "cdn", "/", "f", ".pdf">>

Worlds == {"scenario", "multi", "mixed", "unbounded"}

START_URLS(w) ==
    CASE w = "scenario"  -> <<IndexHtml>>
      [] w = "multi"     -> <<RootH, RootG>>
      [] w = "mixed"     -> <<RootM>>
      [] w = "unbounded" -> <<InfPage(0)>>

\* the markup a URL serves with status 200 and content type text/html,
\* or <<>> when it serves none (no such page, or not HTML)
Page(w, url) ==
    CASE w = "scenario" /\ url = IndexHtml ->
            <<A(<<"a", ".pdf">>), A(<<"page2", ".html">>)>>
      [] w = "scenario" /\ url = Page2Html ->
            <<A(<<"b", ".mp4">>), A(<<"index", ".html">>)>>
      [] w = "multi" /\ url = RootH ->
            <<A(<<"x", ".pdf">>), A(GXPdf), A(GIndex), A(<<"list", ".html">>)>>
      [] w = "multi" /\ url = ListHtml ->
            <<A(<<"x", ".pdf">>), A(<<"list", ".html">>),
              Tag("source", "src", <<"y", ".mp4">>)>>
      [] w = "multi" /\ url = RootG ->
            <<A(<<"docs", "/", "x", ".pdf">>)>>
      [] w = "multi" /\ url = GIndex ->
            <<A(<<"private", ".pdf">>)>>
      [] w = "mixed" /\ url = RootM ->
            <<Tag("video", "src", <<"sub", "/", "clip", ".mp4">>),
              A(<<"r", ".pdf", "?", "dl=1">>),
              Tag("source", "src", <<"V", ".MP4">>),
              A(<<Scheme, "[">>),
              Tag("a", "name", <<"top">>),
              A(<<>>),
              A(<<"sub", "/", "p", ".html">>),
              A(GIndex),
              Tag("source", "src", <<"/", "sub", "/", "clip", ".mp4">>),
              A(<<"/", "sub", "/", "p", ".html">>)>>
      [] w = "mixed" /\ url = MSub ->
            <<A(<<"d", ".pdf">>), A(<<"/">>), A(GXPdf), A(<<"p", ".html">>),
              A(<<"view", "?", "f=x", ".pdf">>)>>
      [] w = "mixed" /\ url = GIndex ->
            <<A(<<"private", ".pdf">>)>>
      [] w = "unbounded" /\ IsInfPage(url) /\ PageNo(url) < 3 ->
            <<A(InfPage(2 * PageNo(url) + 1)), A(CdnPdf),
              A(InfPage(2 * PageNo(url) + 2))>>
      [] w = "unbounded" /\ IsInfPage(url) /\ PageNo(url) >= 3 ->
            <<A(InfPage(2 * PageNo(url) + 1)), A(InfPage(2 * PageNo(url) + 2))>>
      [] OTHER -> <<>>

\* the pages whose fetch may fail (timeout, connection error, status 5xx)
Flaky(w) ==
    CASE w = "scenario"  -> {IndexHtml, Page2Html}
      [] w = "multi"     -> {RootH, ListHtml, RootG}
      [] w = "mixed"     -> {RootM, MSub}
      [] w = "unbounded" -> {InfPage(1), InfPage(6)}

----------------------------------------------------------------------------
(* fetch_html and crawl_site *)

MAX_PAGES_PER_SITE == 500

\* the values fetch_html(url) can return: the markup, or "" (here <<>>)
fetch_html(w, url) ==
    IF url \in Flaky(w) THEN {Page(w, url), <<>>} ELSE {Page(w, url)}

\* lines 118-121: anchors with href, then sources with src, then videos with src
TagsOf(html) ==
    SelectSeq(html, LAMBDA t : t.kind = "a" /\ t.attr = "href")
    \o SelectSeq(html, LAMBDA t : t.kind = "source" /\ t.attr = "src")
    \o SelectSeq(html, LAMBDA t : t.kind = "video" /\ t.attr = "src")

\* lines 123-131: the file links of one page, appended to found
RECURSIVE CollectFiles(_, _, _)
CollectFiles(found, url, tags) ==
    IF tags = <<>> THEN found
    ELSE LET href    == Head(tags).val
             abs_url == normalize_link(url, href)
         IN  IF href = <<>> THEN CollectFiles(found, url, Tail(tags))
             ELSE IF abs_url = <<>> THEN CollectFiles(found, url, Tail(tags))
             ELSE IF is_wanted_file(abs_url)
                  THEN CollectFiles(Append(found, abs_url), url, Tail(tags))
                  ELSE CollectFiles(found, url, Tail(tags))

\* a crawler that enqueues a link without looking at the queue
ShouldFollowQueued(nxt, h, seen, queue) ==
    /\ nxt # <<>>
    /\ same_host(nxt, h)
    /\ nxt \notin seen

\* line 136: the condition under which a link is enqueued
ShouldFollow(nxt, h, seen, queue) ==
    /\ nxt # <<>>
    /\ same_host(nxt, h)
    /\ nxt \notin seen
    /\ ~Contains(queue, nxt)

\* lines 134-137: follow the internal links of one page
RECURSIVE FollowLinks(_, _, _, _, _)
FollowLinks(queue, url, anchors, h, seen) ==
    IF anchors = <<>> THEN queue
    ELSE LET nxt == normalize_link(url, Head(anchors).val)
         IN  IF ShouldFollow(nxt, h, seen, queue)
             THEN FollowLinks(Append(queue, nxt), url, Tail(anchors), h, seen)
             ELSE FollowLinks(queue, url, Tail(anchors), h, seen)

Anchors(html) == SelectSeq(html, LAMBDA t : t.kind = "a" /\ t.attr = "href")

\* a crawler that returns the list as collected
DedupNone(found, dedup, seen) == found

\* lines 139-146: deduplicate while keeping order
RECURSIVE Dedup(_, _, _)
Dedup(found, dedup, seen) ==
    IF found = <<>> THEN dedup
    ELSE IF Head(found) \notin seen
         THEN Dedup(Tail(found), Append(dedup, Head(found)), seen \cup {Head(found)})
         ELSE Dedup(Tail(found), dedup, seen)

\* a loop that tests the cap with <= instead of <
CrawlContinuesOffByOne ==
    to_visit # <<>> /\ Cardinality(seen_pages) <= MAX_PAGES_PER_SITE

\* line 105: the loop condition
CrawlContinues ==
    to_visit # <<>> /\ Cardinality(seen_pages) < MAX_PAGES_PER_SITE

\* lines 100-103: the start of crawl_site(start_url)
CrawlBegin(start_url) ==
    /\ host' = netloc(start_url)
    /\ to_visit' = <<start_url>>
    /\ seen_pages' = {}
    /\ found_files' = <<>>
    /\ fetched' = <<>>
    /\ got_html' = {}

\* a crawler that remembers only the page it is on
MarkSeenLast(seen, url) == {url}

\* line 109: seen_pages.add(url)
MarkSeen(seen, url) == seen \cup {url}

\* lines 105-137: one iteration of the while loop
CrawlSiteLoop ==
    /\ pc = "crawl"
    /\ CrawlContinues
    /\ LET url  == Head(to_visit)
           rest == Tail(to_visit)
       IN  IF url \in seen_pages
           THEN /\ to_visit' = rest
                /\ UNCHANGED <<seen_pages, found_files, fetched, got_html, cur>>
           ELSE /\ seen_pages' = MarkSeen(seen_pages, url)
                /\ fetched' = Append(fetched, url)
                /\ \E html \in fetch_html(world, url) :
                     IF html = <<>>
                     THEN /\ to_visit' = rest
                          /\ cur' = IF Page(world, url) # <<>>
                                    THEN [cur EXCEPT !.clean = FALSE] ELSE cur
                          /\ UNCHANGED <<found_files, got_html>>
                     ELSE /\ found_files' = CollectFiles(found_files, url, TagsOf(html))
                          /\ to_visit' = FollowLinks(rest, url, Anchors(html), host,
                                                     seen_pages')
                          /\ got_html' = got_html \cup {url}
                          /\ UNCHANGED cur
    /\ UNCHANGED <<world, run_once, pc, host, files, procVars, storeVars>>
    /\ UNCHANGED <<delivered, relayed, cycle, crashes, initLedger, recorded, lost, prev>>

\* lines 139-146: the loop has ended; deduplicate and return to line 195
CrawlSiteReturn ==
    /\ pc = "crawl"
    /\ ~CrawlContinues
    /\ files' = Dedup(found_files, <<>>, {})
    /\ idx' = 1
    /\ pc' = "for_file"
    /\ cur' = [cur EXCEPT !.found = @ \cup Range(files')]
    /\ UNCHANGED <<world, run_once, crawlVars, sent, total_new, sp, local, storeVars>>
    /\ UNCHANGED <<delivered, relayed, cycle, crashes, initLedger, recorded, lost, prev>>

----------------------------------------------------------------------------
(* The ledger: sha1, load_sent, save_sent *)

\* hashlib.sha1 of the URL text: a tagged value, one per URL (no collisions)
sha1(s) == <<"sha1">> \o s

EmptyFn == [x \in {} |-> 0]

Get(f, k) == IF k \in DOMAIN f THEN f[k] ELSE 0

Inc(f, k) == IF k \in DOMAIN f THEN [f EXCEPT ![k] = @ + 1] ELSE (k :> 1) @@ f

\* the content of the ledger file: no file, "" after open(.., "w"), a cut-off
\* JSON text, or the JSON text of {"sent": [...]}
NoFile        == [kind |-> "missing", sent |-> <<>>]
EmptyText     == [kind |-> "empty", sent |-> <<>>]
PartialText   == [kind |-> "partial", sent |-> <<>>]
JsonText(lst) == [kind |-> "json", sent |-> lst]

\* a load that ignores the file
load_sent_forget(file) == {}

\* lines 63-68
load_sent(file) ==
    IF file.kind = "json" THEN Range(file.sent) ELSE {}

\* list(sent): the elements of the set in any order
ListsOf(S) ==
    {l \in [1..Cardinality(S) -> S] : Range(l) = S}

\* line 71, json.dumps({"sent": list(sent)}): the texts write_text may write
DumpsSent(S) == {JsonText(l) : l \in ListsOf(S)}

----------------------------------------------------------------------------
(* download_file and send_to_telegram *)

\* line 149: Path(urlparse(file_url).path).name or sha1(file_url)
ArtifactName(file_url) ==
    IF PathName(urlpath(file_url)) = <<>> THEN sha1(file_url)
    ELSE PathName(urlpath(file_url))

\* a fetcher that never finds the artifact in place
DestExistsNever(d, name) == FALSE

\* line 151: dest.exists() and dest.stat().st_size > 0
DestExists(d, name) == name \in DOMAIN d

\* the ways session.get of a file can end: status 200 and the whole body,
\* another status, or an error while the body is streamed
GetOutcomes == {"ok", "status", "error"}

\* lines 171-176: the send mode chosen by the suffix of the path
SendMode(path) ==
    IF LowerTok(Last(path)) = ".mp4" THEN "video" ELSE "document"

\* an orchestrator that does not consult the ledger
AlreadySentNever(file_id, s) == FALSE

\* an orchestrator that takes every file for recorded
AlreadySentAlways(file_id, s) == TRUE

\* line 199
AlreadySent(file_id, s) == file_id \in s

----------------------------------------------------------------------------
(* process_all and main *)

NewCycle == [clean |-> TRUE, found |-> {}, failed |-> {}, ok |-> {},
             sends |-> EmptyFn, gets |-> EmptyFn,
             starts |-> {}, spSends |-> EmptyFn, spGets |-> EmptyFn]

MaxCycles == 2

\* lines 56-58: the module is loaded
Boot ==
    /\ pc = "boot"
    /\ sentFile' = IF sentFile.kind = "missing" THEN JsonText(<<>>) ELSE sentFile
    /\ recorded' = recorded \cup load_sent(sentFile')
    /\ pc' = "main"
    /\ UNCHANGED <<world, run_once, files, crawlVars, procVars, disk, parts>>
    /\ UNCHANGED <<delivered, relayed, cycle, crashes, initLedger, lost, cur, prev>>

\* lines 217, 188-194: process_all starts and crawls the first start URL
ProcessAllBegin ==
    /\ pc = "main"
    /\ sent' = load_sent(sentFile)
    /\ total_new' = 0
    /\ sp' = 1
    /\ CrawlBegin(START_URLS(world)[1])
    /\ files' = <<>>
    /\ idx' = 1
    /\ pc' = "crawl"
    /\ cur' = [cur EXCEPT !.starts = {START_URLS(world)[1]}]
    /\ UNCHANGED <<world, run_once, local, storeVars>>
    /\ UNCHANGED <<delivered, relayed, cycle, crashes, initLedger, recorded, lost, prev>>

\* lines 197-200: file_id is in sent
SkipSent ==
    /\ pc = "for_file"
    /\ idx <= Len(files)
    /\ AlreadySent(sha1(files[idx]), sent)
    /\ idx' = idx + 1
    /\ UNCHANGED <<world, run_once, pc, files, crawlVars, sent, total_new, sp, local>>
    /\ UNCHANGED <<storeVars, obsVars>>

\* lines 148-152, 202: download_file returns the artifact that is there
DownloadSkip(file_url) ==
    /\ DestExists(disk, ArtifactName(file_url))
    /\ local' = ArtifactName(file_url)
    /\ pc' = "send"
    /\ UNCHANGED <<idx, disk, parts, cur>>

\* a fetcher that streams the body to the final path, with no temporary file
DownloadGetInPlace(file_url) ==
    /\ ~DestExists(disk, ArtifactName(file_url))
    /\ \E outcome \in GetOutcomes :
         /\ cur' = [cur EXCEPT !.gets = Inc(@, file_url),
                               !.spGets = Inc(@, file_url),
                               !.clean = (@ /\ outcome = "ok")]
         /\ CASE outcome = "ok" ->
                   /\ disk' = (ArtifactName(file_url) :> file_url) @@ disk
                   /\ local' = ArtifactName(file_url)
                   /\ pc' = "send"
                   /\ UNCHANGED <<idx, parts>>
              [] outcome = "status" ->
                   /\ idx' = idx + 1
                   /\ UNCHANGED <<disk, parts, local, pc>>
              [] outcome = "error" ->
                   /\ disk' = (ArtifactName(file_url) :> <<"cut off">> \o file_url) @@ disk
                   /\ idx' = idx + 1
                   /\ UNCHANGED <<parts, local, pc>>

\* lines 153-167, 202-203: download_file fetches the file
DownloadGet(file_url) ==
    /\ ~DestExists(disk, ArtifactName(file_url))
    /\ \E outcome \in GetOutcomes :
         /\ cur' = [cur EXCEPT !.gets = Inc(@, file_url),
                               !.spGets = Inc(@, file_url),
                               !.clean = (@ /\ outcome = "ok")]
         /\ CASE outcome = "ok" ->
                   /\ disk' = (ArtifactName(file_url) :> file_url) @@ disk
                   /\ parts' = parts \ {ArtifactName(file_url)}
                   /\ local' = ArtifactName(file_url)
                   /\ pc' = "send"
                   /\ UNCHANGED idx
              [] outcome = "status" ->
                   /\ idx' = idx + 1
                   /\ UNCHANGED <<disk, parts, local, pc>>
              [] outcome = "error" ->
                   /\ parts' = parts \cup {ArtifactName(file_url)}
                   /\ idx' = idx + 1
                   /\ UNCHANGED <<disk, local, pc>>

\* lines 197-203: file_id is not in sent; download_file
DownloadFile ==
    /\ pc = "for_file"
    /\ idx <= Len(files)
    /\ ~AlreadySent(sha1(files[idx]), sent)
    /\ DownloadSkip(files[idx]) \/ DownloadGet(files[idx])
    /\ UNCHANGED <<world, run_once, files, crawlVars, sent, total_new, sp, sentFile>>
    /\ UNCHANGED <<delivered, relayed, cycle, crashes, initLedger, recorded, lost, prev>>

\* lines 205-207: ok is True
SendOk(file_url) ==
    /\ sent' = sent \cup {sha1(file_url)}
    /\ total_new' = total_new + 1
    /\ pc' = "save"
    /\ UNCHANGED idx

\* an orchestrator that records the fingerprint whatever send_to_telegram returns
SendFailedRecords(file_url) ==
    /\ sent' = sent \cup {sha1(file_url)}
    /\ idx' = idx + 1
    /\ pc' = "for_file"
    /\ UNCHANGED total_new

\* an orchestrator that lets the failure of a delivery end process_all
SendFailedAborts(file_url) ==
    /\ pc' = "exit"
    /\ UNCHANGED <<idx, sent, total_new>>

\* an orchestrator that tries the file again at once after a failed delivery
SendFailedRetry(file_url) ==
    /\ pc' = "for_file"
    /\ UNCHANGED <<idx, sent, total_new>>

\* lines 210-211: ok is False
SendFailed(file_url) ==
    /\ idx' = idx + 1
    /\ pc' = "for_file"
    /\ UNCHANGED <<sent, total_new>>

\* lines 169-180, 204-211: send_to_telegram returns True or False
SendToTelegram ==
    /\ pc = "send"
    /\ \E ok \in BOOLEAN :
         /\ IF ok THEN SendOk(files[idx]) ELSE SendFailed(files[idx])
         /\ delivered' = IF ok THEN Inc(delivered, files[idx]) ELSE delivered
         /\ relayed' = IF ok
                       THEN relayed \cup {[url |-> files[idx], content |-> disk[local],
                                           mode |-> SendMode(local)]}
                       ELSE relayed
         /\ cur' = [cur EXCEPT !.sends = Inc(@, files[idx]),
                               !.spSends = Inc(@, files[idx]),
                               !.clean = (@ /\ ok),
                               !.ok = IF ok THEN @ \cup {files[idx]} ELSE @,
                               !.failed = IF ok THEN @ ELSE @ \cup {files[idx]}]
    /\ UNCHANGED <<world, run_once, files, crawlVars, sp, local, storeVars>>
    /\ UNCHANGED <<cycle, crashes, initLedger, recorded, lost, prev>>

\* lines 71, 208: write_text opens the ledger file for writing, which empties it
SaveSentOpen ==
    /\ pc = "save"
    /\ sentFile' = EmptyText
    /\ pc' = "save_write"
    /\ UNCHANGED <<world, run_once, files, crawlVars, procVars, disk, parts, obsVars>>

\* a save_sent that writes an empty list
SaveSentTextEmpty(S) == {JsonText(<<>>)}

\* the text save_sent leaves in the file
SaveSentText(S) == DumpsSent(S)

\* lines 71, 208-209: write_text writes the text and closes the file
SaveSentWrite ==
    /\ pc = "save_write"
    /\ sentFile' \in SaveSentText(sent)
    /\ recorded' = recorded \cup load_sent(sentFile')
    /\ idx' = idx + 1
    /\ pc' = "for_file"
    /\ UNCHANGED <<world, run_once, files, crawlVars, sent, total_new, sp, local>>
    /\ UNCHANGED <<disk, parts>>
    /\ UNCHANGED <<delivered, relayed, cycle, crashes, initLedger, lost, cur, prev>>

\* lines 192-194: the files of this start URL are done; crawl the next one
NextStart ==
    /\ pc = "for_file"
    /\ idx > Len(files)
    /\ sp < Len(START_URLS(world))
    /\ sp' = sp + 1
    /\ CrawlBegin(START_URLS(world)[sp + 1])
    /\ pc' = "crawl"
    /\ cur' = [cur EXCEPT !.starts = @ \cup {START_URLS(world)[sp + 1]},
                          !.spSends = EmptyFn, !.spGets = EmptyFn]
    /\ UNCHANGED <<world, run_once, files, sent, total_new, idx, local, storeVars>>
    /\ UNCHANGED <<delivered, relayed, cycle, crashes, initLedger, recorded, lost, prev>>

\* line 213: process_all returns
ProcessAllReturn ==
    /\ pc = "for_file"
    /\ idx > Len(files)
    /\ sp = Len(START_URLS(world))
    /\ pc' = "cycle_end"
    /\ UNCHANGED <<world, run_once, files, crawlVars, procVars, storeVars, obsVars>>

\* lines 218-219: RUN_ONCE ends main
MainBreak ==
    /\ pc = "cycle_end"
    /\ run_once
    /\ pc' = "exit"
    /\ UNCHANGED <<world, run_once, files, crawlVars, procVars, storeVars, obsVars>>

\* lines 220-221, 216: sleep, then the next cycle
MainSleep ==
    /\ pc = "cycle_end"
    /\ ~run_once
    /\ cycle < MaxCycles
    /\ cycle' = cycle + 1
    /\ prev' = cur
    /\ cur' = NewCycle
    /\ pc' = "main"
    /\ UNCHANGED <<world, run_once, files, crawlVars, procVars, storeVars>>
    /\ UNCHANGED <<delivered, relayed, crashes, initLedger, recorded, lost>>

\* lines 220-221, 216: the same, in the cycles that are no longer counted
\* (the record of the cycle before is dropped)
MainSleepOn ==
    /\ pc = "cycle_end"
    /\ ~run_once
    /\ cycle >= MaxCycles
    /\ prev' = NewCycle
    /\ cur' = NewCycle
    /\ pc' = "main"
    /\ UNCHANGED <<world, run_once, files, crawlVars, procVars, storeVars>>
    /\ UNCHANGED <<delivered, relayed, cycle, crashes, initLedger, recorded, lost>>

\* the process is killed and started again: memory is lost, files stay as
\* they are; a kill inside write_text leaves the ledger file empty or cut off
Crash ==
    /\ pc \in {"main", "crawl", "for_file", "send", "save", "save_write", "cycle_end"}
    /\ cycle < MaxCycles
    /\ IF pc = "save_write"
       THEN sentFile' \in {EmptyText, PartialText}
       ELSE sentFile' = sentFile
    /\ lost' = IF pc \in {"save", "save_write"} THEN Inc(lost, files[idx]) ELSE lost
    /\ pc' = "boot"
    /\ sent' = {}
    /\ total_new' = 0
    /\ sp' = 1
    /\ files' = <<>>
    /\ idx' = 1
    /\ local' = <<>>
    /\ host' = ""
    /\ to_visit' = <<>>
    /\ seen_pages' = {}
    /\ found_files' = <<>>
    /\ fetched' = <<>>
    /\ got_html' = {}
    /\ cycle' = cycle + 1
    /\ crashes' = crashes + 1
    /\ prev' = cur
    /\ cur' = NewCycle
    /\ UNCHANGED <<world, run_once, disk, parts, delivered, relayed, initLedger, recorded>>

----------------------------------------------------------------------------
(* Specifications *)

ProcWorlds == {"scenario", "multi"}

\* a file of the world whose fingerprint an initial ledger may hold
SeedUrl(w) == IF w = "scenario" THEN APdf ELSE GXPdf

\* the ledger files a first start can find: none, one left by earlier runs,
\* or one that is not JSON
InitFiles(w) == {NoFile, JsonText(<<sha1(SeedUrl(w))>>), PartialText}

InitStore ==
    /\ disk = EmptyFn
    /\ parts = {}
    /\ delivered = EmptyFn
    /\ relayed = {}
    /\ cycle = 1
    /\ crashes = 0
    /\ initLedger = load_sent(sentFile)
    /\ recorded = load_sent(sentFile)
    /\ lost = EmptyFn
    /\ cur = NewCycle
    /\ prev = NewCycle

Init ==
    /\ world \in ProcWorlds
    /\ run_once \in BOOLEAN
    /\ pc = "boot"
    /\ sentFile \in InitFiles(world)
    /\ sent = {}
    /\ total_new = 0
    /\ sp = 1
    /\ files = <<>>
    /\ idx = 1
    /\ local = <<>>
    /\ host = ""
    /\ to_visit = <<>>
    /\ seen_pages = {}
    /\ found_files = <<>>
    /\ fetched = <<>>
    /\ got_html = {}
    /\ InitStore

Cycle ==
    \/ Boot
    \/ ProcessAllBegin
    \/ CrawlSiteLoop
    \/ CrawlSiteReturn
    \/ SkipSent
    \/ DownloadFile
    \/ SendToTelegram
    \/ SaveSentOpen
    \/ SaveSentWrite
    \/ NextStart
    \/ ProcessAllReturn
    \/ MainBreak
    \/ MainSleep

Next == Cycle

NextCrash == Cycle \/ Crash

\* main, never killed
Spec == Init /\ [][Next]_vars

\* main, killed and restarted at any point
SpecCrash == Init /\ [][NextCrash]_vars

\* the file URLs of the worlds process_all runs in
FileUrls == {APdf, BMp4, HXPdf, HYMp4, GXPdf}

\* lines 148-167, 202: download_file returns a path
DownloadSucceeds == DownloadFile /\ pc' = "send"

\* lines 169-180, 204-205: send_to_telegram returns True
SendSucceeds == SendToTelegram /\ pc' = "save"

NextLive == Cycle \/ MainSleepOn

\* main, never killed, with cycles without end when RUN_ONCE is off: the
\* process keeps running, downloads do not fail for ever and deliveries do
\* not fail for ever
SpecLive ==
    /\ Init /\ [][NextLive]_vars
    /\ WF_vars(NextLive)
    /\ SF_vars(DownloadSucceeds) /\ SF_vars(SendSucceeds)

\* crawl_site(start_url) alone, for every world and each of its start URLs
InitCrawl ==
    /\ world \in Worlds
    /\ run_once = TRUE
    /\ pc = "crawl"
    /\ sentFile = JsonText(<<>>)
    /\ sent = {}
    /\ total_new = 0
    /\ \E i \in 1..Len(START_URLS(world)) :
         /\ sp = i
         /\ host = netloc(START_URLS(world)[i])
         /\ to_visit = <<START_URLS(world)[i]>>
    /\ files = <<>>
    /\ idx = 1
    /\ local = <<>>
    /\ seen_pages = {}
    /\ found_files = <<>>
    /\ fetched = <<>>
    /\ got_html = {}
    /\ InitStore

NextCrawl == CrawlSiteLoop \/ CrawlSiteReturn

SpecCrawl == InitCrawl /\ [][NextCrawl]_vars

\* the loop of crawl_site keeps running until it returns
SpecCrawlFair == SpecCrawl /\ WF_vars(NextCrawl)

----------------------------------------------------------------------------
(* Properties *)

Confirmed == {sha1(u) : u \in {v \in DOMAIN delivered : delivered[v] >= 1}}

InCycle == pc \in {"crawl", "for_file", "send", "save", "save_write", "cycle_end", "exit"}

\* C1: with no crash, send_to_telegram is called for a file only while its
\* fingerprint is in neither the in-memory nor the persisted ledger, and no
\* file is delivered successfully more than once, also when several start
\* URLs lead to it in one cycle.
C1_DeliverOnlyIfAbsent ==
    /\ pc = "send" =>
         /\ sha1(files[idx]) \notin sent
         /\ sha1(files[idx]) \notin load_sent(sentFile)
    /\ \A u \in DOMAIN delivered : delivered[u] <= 1

\* the second start URL has found the file the first one delivered, and skipped it
C1_Witness ==
    /\ world = "multi" /\ cycle = 1 /\ initLedger = {}
    /\ sp = 2 /\ pc = "for_file" /\ files = <<GXPdf>> /\ idx = 2
    /\ Get(delivered, GXPdf) = 1 /\ Get(cur.sends, GXPdf) = 1

FailedNotRecorded ==
    \A u \in cur.failed \ cur.ok :
        sha1(u) \notin sent /\ sha1(u) \notin load_sent(sentFile)

C4_PersistedEachDelivery ==
    pc \in {"crawl", "for_file", "send", "cycle_end", "exit"} =>
        /\ load_sent(sentFile) = sent
        /\ \A u \in cur.ok : sha1(u) \in load_sent(sentFile)

\* the second file is about to be processed and the first is in the file
C4_Witness ==
    /\ pc = "for_file" /\ idx = 2 /\ Len(files) = 2
    /\ files[1] \in cur.ok /\ initLedger = {}
    /\ sha1(files[1]) \in load_sent(sentFile)

\* C5: a ledger loaded after a restart holds every fingerprint that a
\* completed write (or the initial file) ever held.
C5_CrashSafe ==
    InCycle => recorded \subseteq sent

\* C6: a file is delivered at most once more for each crash that fell between
\* its successful send and the end of the ledger write that records it.
C6_AtMostOneDuplicate ==
    \A u \in DOMAIN delivered : delivered[u] <= 1 + Get(lost, u)

\* C7: every fingerprint in the ledger (file or memory) that the initial
\* ledger did not hold is the fingerprint of a file whose delivery succeeded.
C7_OnlyConfirmed ==
    load_sent(sentFile) \cup sent \subseteq initLedger \cup Confirmed

\* a cycle from an empty ledger in which one file was delivered and recorded
\* and the delivery of another failed
C7_Witness ==
    /\ initLedger = {} /\ pc = "cycle_end"
    /\ load_sent(sentFile) # {}
    /\ cur.failed \ cur.ok # {}
    /\ \E u \in cur.found : Get(cur.gets, u) = 1 /\ Get(cur.sends, u) = 0

\* C8: crawl_site passes at most MAX_PAGES_PER_SITE URLs to fetch_html, it
\* returns, and when it returns the queue is empty or the seen-set is full.
C8_CrawlBound ==
    /\ [](/\ Len(fetched) <= MAX_PAGES_PER_SITE
          /\ Cardinality(seen_pages) <= MAX_PAGES_PER_SITE
          /\ pc = "for_file" =>
               \/ to_visit = <<>>
               \/ Cardinality(seen_pages) = MAX_PAGES_PER_SITE)
    /\ <>(pc = "for_file")

\* the crawl of the unbounded site has returned at the cap, links pending
C8_Witness ==
    /\ world = "unbounded" /\ pc = "for_file"
    /\ Len(fetched) = MAX_PAGES_PER_SITE
    /\ to_visit # <<>>

\* the tags of page p that crawl_site reads a link from
LinkTags(w, p) ==
    {i \in 1..Len(Page(w, p)) :
        /\ \/ Page(w, p)[i].kind = "a" /\ Page(w, p)[i].attr = "href"
           \/ Page(w, p)[i].kind \in {"source", "video"} /\ Page(w, p)[i].attr = "src"
        /\ Page(w, p)[i].val # <<>>}

\* the wanted file links of page p, as absolute URLs
FileLinksOf(w, p) ==
    {u \in {normalize_link(p, Page(w, p)[i].val) : i \in LinkTags(w, p)} :
        u # <<>> /\ is_wanted_file(u)}

\* C9: every URL in the queue, in the seen-set or passed to fetch_html is on
\* the host of the start URL, and every wanted file link of a page whose
\* markup was fetched is collected, whatever its host.
C9_HostContainment ==
    /\ \A i \in 1..Len(to_visit) : netloc(to_visit[i]) = host
    /\ \A u \in seen_pages : netloc(u) = host
    /\ \A i \in 1..Len(fetched) : netloc(fetched[i]) = host
    /\ \A p \in got_html : FileLinksOf(world, p) \subseteq Range(found_files)
    /\ pc = "for_file" =>
         \A p \in got_html : FileLinksOf(world, p) \subseteq Range(files)

\* a page linked a page and a file on another host: the file was collected,
\* the page was not fetched
C9_Witness ==
    /\ world = "mixed" /\ pc = "for_file"
    /\ MSub \in got_html /\ RootM \in got_html
    /\ GXPdf \in Range(files) /\ netloc(GXPdf) # host
    /\ ~Contains(fetched, GIndex)

FirstIndex(s, x) == CHOOSE i \in 1..Len(s) : s[i] = x /\ \A j \in 1..(i - 1) : s[j] # x

\* C10: crawl_site returns each collected file URL once, ordered by first
\* occurrence in the list collected page by page; pages are fetched breadth
\* first (level by level on the unbounded site); for the two-page scenario
\* with both pages fetched it returns [http://h/a.pdf, http://h/b.mp4].
C10_DedupFirstSeenOrder ==
    pc = "for_file" =>
        /\ \A i, j \in 1..Len(files) : i # j => files[i] # files[j]
        /\ Range(files) = Range(found_files)
        /\ \A i, j \in 1..Len(files) :
             i < j => FirstIndex(found_files, files[i]) < FirstIndex(found_files, files[j])
        /\ (world = "scenario" /\ cur.clean) => files = <<APdf, BMp4>>
        /\ (world = "unbounded" /\ cur.clean) =>
             \A i \in 1..Len(fetched) : fetched[i] = InfPage(i - 1)

\* the crawl of the two-page scenario has returned, both pages fetched
C10_Witness ==
    /\ world = "scenario" /\ pc = "for_file" /\ cur.clean
    /\ got_html = {IndexHtml, Page2Html}
    /\ files = <<APdf, BMp4>>

\* C11: no URL that is a wanted file is passed to fetch_html or put in the
\* seen-set, and the crawl of the two-page scenario with both pages fetched
\* visits exactly 2 pages.
C11_NoFileTraversal ==
    /\ \A i \in 1..Len(fetched) : ~is_wanted_file(fetched[i])
    /\ \A u \in seen_pages : ~is_wanted_file(u)
    /\ (world = "scenario" /\ pc = "for_file" /\ cur.clean) =>
         Cardinality(seen_pages) = 2

\* a step in which download_file issued its GET and returned None
DownloadFailed ==
    /\ pc = "for_file" /\ idx <= Len(files)
    /\ pc' = "for_file" /\ idx' = idx + 1
    /\ Get(cur'.gets, files[idx]) = Get(cur.gets, files[idx]) + 1

Processed(u) ==
    sha1(u) \in sent \/ Get(cur.gets, u) >= 1 \/ Get(cur.sends, u) >= 1

\* C13: process_all ends only after crawl_site was called for every start
\* URL and every file it returned was dealt with, whatever page fetch, file
\* fetch or delivery failed on the way; a file whose fetch or delivery was
\* tried in the cycle without a successful delivery is in neither the
\* in-memory ledger nor the ledger file.
C13_SkipAndContinue ==
    /\ pc \in {"cycle_end", "exit"} =>
         /\ sp = Len(START_URLS(world)) /\ idx > Len(files)
         /\ cur.starts = Range(START_URLS(world))
         /\ \A u \in cur.found : Processed(u)
    /\ \A u \in cur.found :
         ((Get(cur.gets, u) >= 1 \/ Get(cur.sends, u) >= 1) /\ u \notin cur.ok) =>
             sha1(u) \notin sent \cup load_sent(sentFile)

\* a cycle has ended in which the fetch of the first file failed, the
\* delivery of the second failed, the third was delivered, and the page of
\* the second start URL could not be fetched
C13_Witness ==
    /\ world = "multi" /\ pc = "cycle_end" /\ cur.ok # {}
    /\ prev.found = {} /\ cur.found = {HXPdf, GXPdf, HYMp4}
    /\ Get(cur.gets, HXPdf) = 1 /\ Get(cur.sends, HXPdf) = 0
    /\ GXPdf \in cur.failed
    /\ HYMp4 \in cur.ok
    /\ fetched = <<RootG>> /\ got_html = {}

\* crawl_site has just returned a list that holds u
Discovered(u) == pc = "for_file" /\ Contains(files, u)

\* C14: with RUN_ONCE off, a file URL that crawl_site returns again and
\* again is eventually recorded in the ledger file, when no download and no
\* delivery fails for ever.
C14_EventuallyRecorded ==
    \A u \in FileUrls :
        (~run_once /\ []<>Discovered(u)) => <>(sha1(u) \in load_sent(sentFile))

\* the delivery of a file failed in the first cycle; in the second the file
\* was delivered and its fingerprint is in the ledger file
C14_Witness ==
    /\ ~run_once /\ cycle = 2 /\ pc = "for_file"
    /\ \E u \in FileUrls :
         /\ u \in prev.failed /\ sha1(u) \notin initLedger
         /\ u \in cur.ok /\ sha1(u) \in load_sent(sentFile)

\* the URLs the a[href], source[src] and video[src] tags of page p resolve to
LinksOf(w, p) ==
    {normalize_link(p, Page(w, p)[i].val) : i \in LinkTags(w, p)} \ {<<>>}

\* the lowercased path of the URL ends with a wanted suffix
PathWanted(url) ==
    \E i \in 1..Len(WANTED_EXTS) : EndsWith(Lower(urlpath(url)), WANTED_EXTS[i])

\* C15: a link of a fetched page is collected as a file exactly when the
\* lowercased path of its URL ends with .mp4 or .pdf, whatever query string
\* or fragment follows the path.
C15_PathSuffix ==
    /\ \A p \in got_html : \A u \in LinksOf(world, p) :
         PathWanted(u) => u \in Range(found_files)
    /\ \A u \in Range(found_files) : PathWanted(u)

\* C16 as stated: in one cycle no file URL is fetched twice or sent twice,
\* from however many start URLs it is discovered.
C16_Original ==
    \A u \in cur.found : Get(cur.gets, u) <= 1 /\ Get(cur.sends, u) <= 1

\* C16: while the files of one start URL are processed no file URL is
\* fetched twice or sent twice, also after a failed delivery; over the cycle
\* a file URL is fetched and sent at most once per start URL crawled so far.
C16_OncePerStartUrl ==
    \A u \in cur.found :
        /\ Get(cur.spGets, u) <= 1 /\ Get(cur.spSends, u) <= 1
        /\ Get(cur.gets, u) <= Cardinality(cur.starts)
        /\ Get(cur.sends, u) <= Cardinality(cur.starts)

\* the delivery of a file found from both start URLs failed under the
\* first and was tried again under the second, in the same cycle
C16_Witness ==
    /\ world = "multi" /\ pc = "for_file" /\ sp = 2
    /\ GXPdf \in cur.failed
    /\ Get(cur.sends, GXPdf) = 2 /\ Get(cur.spSends, GXPdf) = 1

\* C17: during crawl_site the seen-set never loses a URL, no URL is passed
\* to fetch_html twice, and the URLs passed to fetch_html are exactly the
\* seen-set, whatever cycles and self-links the pages hold.
C17_SeenOnlyGrows ==
    /\ [][seen_pages \subseteq seen_pages']_vars
    /\ [](/\ Cardinality(Range(fetched)) = Len(fetched)
          /\ Range(fetched) = seen_pages)

\* the crawl of the two pages that link each other has returned: each page
\* and each file link was fetched once
C17_Witness ==
    /\ world = "scenario" /\ pc = "for_file"
    /\ Page2Html \in got_html /\ IndexHtml \in got_html
    /\ Contains(Anchors(Page(world, Page2Html)), A(<<"index", ".html">>))
    /\ Len(fetched) = 4 /\ Cardinality(seen_pages) = 4

\* C18: the artifact handed to send_to_telegram for a file URL holds the
\* body fetched from that URL, and every delivery made relayed the body of
\* the URL whose fingerprint was recorded for it.
C18_OwnContent ==
    /\ pc = "send" => disk[local] = files[idx]
    /\ \A r \in relayed : r.content = r.url

\* C19: while crawl_site runs, to_visit holds no URL twice and no URL of
\* seen_pages, so the URL popped next is never in seen_pages and the
\* `continue` of line 108 is not taken.
C19_QueueDisjointFromSeen ==
    pc = "crawl" =>
        /\ Cardinality(Range(to_visit)) = Len(to_visit)
        /\ Range(to_visit) \cap seen_pages = {}
        /\ CrawlContinues => Head(to_visit) \notin seen_pages

\* the first page linked the second page twice and the second page linked
\* itself and the first: the second page was enqueued once, and neither
\* page was enqueued again
C19_Witness ==
    /\ world = "mixed" /\ pc = "crawl"
    /\ RootM \in got_html /\ MSub \in got_html
    /\ Cardinality({i \in 1..Len(Anchors(Page(world, RootM))) :
           normalize_link(RootM, Anchors(Page(world, RootM))[i].val) = MSub}) = 2
    /\ Cardinality({i \in 1..Len(fetched) : fetched[i] = MSub}) = 1
    /\ to_visit # <<>>

============================================================================
